---- MODULE Spec2Model ----
(***************************************************************************)
(* A model of tailr (src/tailr/src/main.rs): the count-token parser        *)
(* parse_num, the start-offset resolver get_start_index, the extent        *)
(* counter count_lines_bytes, the two streamers print_lines / print_bytes  *)
(* and the driver main / get_args / run.                                   *)
(*                                                                         *)
(* Machine integers.  TLC's integers are 32 bits wide, the program's are   *)
(* 64 bits wide, so an i64 / u64 value is modelled exactly as a sign and   *)
(* a decimal magnitude: [neg |-> BOOLEAN, mag |-> digits], most            *)
(* significant digit first, no leading zero, zero = [neg FALSE, mag <<>>]. *)
(* Bytes are the integers 0..255; a token is a sequence of characters,     *)
(* each character a string.                                                *)
(***************************************************************************)
EXTENDS Integers, Sequences, FiniteSets, TLC

VARIABLES
    token,      \* SpecParse: the argument of the parse_num call
    parsed,     \* SpecParse: the result of the parse_num call
    calls,      \* SpecParse: the parse_num calls made so far
    num_re,     \* the process-wide NUM_RE cell: "unset" or "set"
    take_val,   \* SpecResolve: the selection given to get_start_index
    total,      \* SpecResolve: the total given to get_start_index
    resolved,   \* SpecResolve: the result of get_start_index
    argv,       \* Spec: the command line as clap hands it to get_args
    disk,       \* Spec: the files by name, [exists, data]
    pc,         \* Spec: where main is
    config,     \* Spec: the Config get_args built
    file_num,   \* Spec: run's loop index over config.files (from 1)
    extent,     \* Spec: (total_lines, total_bytes) of the current file
    ops,        \* Spec: the seeks and reads made on the handles run opened
    streamers,  \* Spec: the calls of print_bytes / print_lines run made
    stdout,     \* Spec: what print! / println! wrote, one entry per call
    stderr,     \* Spec: what eprintln! wrote, one entry per call
    exit_code,  \* Spec: the process's exit status once it has ended
    tool,       \* the program main belongs to: "tailr", "catr", "wcr", "uniqr"
    file,       \* SpecFind: the bytes of the file given to grepr's find_lines
    pattern,    \* SpecFind: the pattern given to find_lines
    matches,    \* SpecFind: the results of find_lines, by invert_match
    range,      \* SpecPos: the argument of cutr's parse_pos
    positions   \* SpecPos: the result of parse_pos

parseVars == <<token, parsed, calls>>
resolveVars == <<take_val, total, resolved>>
runVars == <<argv, disk, pc, config, file_num, extent, ops, streamers, stdout, stderr,
             exit_code>>
findVars == <<file, pattern, matches>>
posVars == <<range, positions>>
otherVars == <<tool, findVars, posVars>>
vars == <<token, parsed, calls, num_re, take_val, total, resolved,
          argv, disk, pc, config, file_num, extent, ops, streamers, stdout, stderr,
          exit_code, tool, file, pattern, matches, range, positions>>

-----------------------------------------------------------------------------
(* Signed decimal numbers: the values of i64 and u64.                      *)

RECURSIVE StripZeros(_)
StripZeros(ds) ==
    IF ds = <<>> THEN <<>>
    ELSE IF Head(ds) = 0 THEN StripZeros(Tail(ds))
    ELSE ds

Num(neg, ds) ==
    LET m == StripZeros(ds)
    IN  [neg |-> (neg /\ m # <<>>), mag |-> m]

Zero == Num(FALSE, <<>>)

\* a < b on magnitudes without leading zeros
RECURSIVE MagLexLt(_, _)
MagLexLt(a, b) ==
    IF a = <<>> THEN FALSE
    ELSE IF Head(a) # Head(b) THEN Head(a) < Head(b)
    ELSE MagLexLt(Tail(a), Tail(b))

MagLt(a, b) ==
    IF Len(a) # Len(b) THEN Len(a) < Len(b) ELSE MagLexLt(a, b)

NumLt(a, b) ==
    IF a.neg /\ ~b.neg THEN TRUE
    ELSE IF ~a.neg /\ b.neg THEN FALSE
    ELSE IF a.neg THEN MagLt(b.mag, a.mag)
    ELSE MagLt(a.mag, b.mag)

NumLe(a, b) == ~NumLt(b, a)

Negative(a) == NumLt(a, Zero)
Positive(a) == NumLt(Zero, a)

\* the last digit and the digits before it, of a magnitude read as a number
LastDigit(m) == IF m = <<>> THEN 0 ELSE m[Len(m)]
ButLast(m) == IF m = <<>> THEN <<>> ELSE SubSeq(m, 1, Len(m) - 1)

\* a + b + carry on magnitudes, digit by digit from the least significant
RECURSIVE MagAddC(_, _, _)
MagAddC(a, b, carry) ==
    IF a = <<>> /\ b = <<>> THEN (IF carry = 0 THEN <<>> ELSE <<carry>>)
    ELSE LET s == LastDigit(a) + LastDigit(b) + carry
         IN  Append(MagAddC(ButLast(a), ButLast(b), s \div 10), s % 10)

\* a - b - borrow on magnitudes, for a >= b + borrow
RECURSIVE MagSubB(_, _, _)
MagSubB(a, b, borrow) ==
    IF a = <<>> THEN <<>>
    ELSE LET d == LastDigit(a) - LastDigit(b) - borrow
         IN  Append(MagSubB(ButLast(a), ButLast(b), IF d < 0 THEN 1 ELSE 0),
                    IF d < 0 THEN d + 10 ELSE d)

NumNeg(a) == Num(~a.neg, a.mag)

\* the mathematical sum a + b
NumAdd(a, b) ==
    IF a.neg = b.neg THEN Num(a.neg, MagAddC(a.mag, b.mag, 0))
    ELSE IF MagLt(a.mag, b.mag) THEN Num(b.neg, MagSubB(b.mag, a.mag, 0))
    ELSE Num(a.neg, MagSubB(a.mag, b.mag, 0))

NumSub(a, b) == NumAdd(a, NumNeg(b))

\* conversions between TLC's integers and the signed decimals
RECURSIVE NatDigits(_)
NatDigits(n) ==
    IF n = 0 THEN <<>> ELSE Append(NatDigits(n \div 10), n % 10)

FromInt(n) == IF n < 0 THEN Num(TRUE, NatDigits(-n)) ELSE Num(FALSE, NatDigits(n))

RECURSIVE MagValue(_)
MagValue(m) ==
    IF m = <<>> THEN 0 ELSE MagValue(ButLast(m)) * 10 + LastDigit(m)

ToInt(a) == IF a.neg THEN -MagValue(a.mag) ELSE MagValue(a.mag)

\* i64::MAX = 2^63 - 1 and i64::MIN = -2^63
I64Max == Num(FALSE, <<9,2,2,3,3,7,2,0,3,6,8,5,4,7,7,5,8,0,7>>)
I64Min == Num(TRUE, <<9,2,2,3,3,7,2,0,3,6,8,5,4,7,7,5,8,0,8>>)

InI64(a) == NumLe(I64Min, a) /\ NumLe(a, I64Max)

-----------------------------------------------------------------------------
(* Results and the TakeValue enum.                                         *)

Ok(v) == [ok |-> TRUE, val |-> v]
Err(m) == [ok |-> FALSE, msg |-> m]

PlusZero == [tag |-> "PlusZero"]
TakeNum(n) == [tag |-> "TakeNum", num |-> n]

-----------------------------------------------------------------------------
(* parse_num.                                                              *)

AsciiDigits == {"0", "1", "2", "3", "4", "5", "6", "7", "8", "9"}

\* A decimal digit outside ASCII (ARABIC-INDIC DIGIT THREE), one character.
\* The regex crate's \d is Unicode-aware and matches it; str::parse does not.
ArabicThree == "U+0663"

ReDigits == AsciiDigits \cup {ArabicThree}

DigitValue(c) ==
    CASE c = "0" -> 0 [] c = "1" -> 1 [] c = "2" -> 2 [] c = "3" -> 3
      [] c = "4" -> 4 [] c = "5" -> 5 [] c = "6" -> 6 [] c = "7" -> 7
      [] c = "8" -> 8 [] c = "9" -> 9

NoCaps == [matched |-> FALSE]

\* mutant: the pattern without its $ anchor, ([+-])?(\d+) matched at the start
RECURSIVE DigitPrefix(_)
DigitPrefix(cs) ==
    IF cs = <<>> \/ Head(cs) \notin ReDigits THEN <<>>
    ELSE <<Head(cs)>> \o DigitPrefix(Tail(cs))

Captures_unanchored(val) ==
    LET signed == val # <<>> /\ Head(val) \in {"+", "-"}
        run == DigitPrefix(IF signed THEN Tail(val) ELSE val)
    IN  IF run # <<>>
        THEN [matched |-> TRUE,
              g1 |-> IF signed THEN <<Head(val)>> ELSE <<>>,
              g2 |-> run]
        ELSE NoCaps

\* NUM_RE.captures(val) for the pattern ^([+-])?(\d+)$ : group 1 is the
\* optional sign ("" when it did not take part), group 2 the digit run.
Captures(val) ==
    LET signed == val # <<>> /\ Head(val) \in {"+", "-"}
        run == IF signed THEN Tail(val) ELSE val
    IN  IF run # <<>> /\ \A i \in 1..Len(run) : run[i] \in ReDigits
        THEN [matched |-> TRUE,
              g1 |-> IF signed THEN <<Head(val)>> ELSE <<>>,
              g2 |-> run]
        ELSE NoCaps

\* mutant: the magnitude is accumulated as a positive i64 and negated at the
\* end, so each step is checked against i64::MAX whatever the sign
RECURSIVE Accumulate_magnitude(_, _, _)
Accumulate_magnitude(neg, acc, ds) ==
    IF ds = <<>> THEN Ok(acc)
    ELSE IF Head(ds) \notin AsciiDigits THEN Err("InvalidDigit")
    ELSE LET nxt == Num(neg, Append(acc.mag, DigitValue(Head(ds))))
         IN  IF NumLe(Num(FALSE, nxt.mag), I64Max)
             THEN Accumulate_magnitude(neg, nxt, Tail(ds))
             ELSE Err(IF neg THEN "NegOverflow" ELSE "PosOverflow")

\* mutant: each step is checked against the magnitude of i64::MIN whatever
\* the sign
RECURSIVE Accumulate_symmetric(_, _, _)
Accumulate_symmetric(neg, acc, ds) ==
    IF ds = <<>> THEN Ok(acc)
    ELSE IF Head(ds) \notin AsciiDigits THEN Err("InvalidDigit")
    ELSE LET nxt == Num(neg, Append(acc.mag, DigitValue(Head(ds))))
         IN  IF NumLt(Num(TRUE, nxt.mag), I64Min)
             THEN Err(IF neg THEN "NegOverflow" ELSE "PosOverflow")
             ELSE Accumulate_symmetric(neg, nxt, Tail(ds))

\* <i64 as FromStr>::from_str on sign ++ digits: every character after the
\* sign must be an ASCII digit; the value is accumulated digit by digit,
\* result * 10 + d for "+", result * 10 - d for "-", each step checked.
RECURSIVE Accumulate(_, _, _)
Accumulate(neg, acc, ds) ==
    IF ds = <<>> THEN Ok(acc)
    ELSE IF Head(ds) \notin AsciiDigits THEN Err("InvalidDigit")
    ELSE LET nxt == Num(neg, Append(acc.mag, DigitValue(Head(ds))))
         IN  IF InI64(nxt) THEN Accumulate(neg, nxt, Tail(ds))
             ELSE Err(IF neg THEN "NegOverflow" ELSE "PosOverflow")

ParseI64(s) ==
    IF s = <<>> THEN Err("Empty")
    ELSE IF Len(s) = 1 /\ Head(s) \in {"+", "-"} THEN Err("InvalidDigit")
    ELSE IF Head(s) = "-" THEN Accumulate(TRUE, Zero, Tail(s))
    ELSE IF Head(s) = "+" THEN Accumulate(FALSE, Zero, Tail(s))
    ELSE Accumulate(FALSE, Zero, s)

\* mutant: a token without sign counts from the start, as "+" does
parse_num_plus(val) ==
    LET caps == Captures(val)
    IN  IF caps.matched
        THEN LET sign == IF caps.g1 = <<>> THEN <<"+">> ELSE caps.g1
                 num == sign \o caps.g2
                 r == ParseI64(num)
             IN  IF r.ok
                 THEN IF sign = <<"+">> /\ r.val = Zero
                      THEN Ok(PlusZero)
                      ELSE Ok(TakeNum(r.val))
                 ELSE Err(val)
        ELSE Err(val)

\* mutant: every zero is PlusZero, the sign not looked at
parse_num_anyzero(val) ==
    LET caps == Captures(val)
    IN  IF caps.matched
        THEN LET sign == IF caps.g1 = <<>> THEN <<"-">> ELSE caps.g1
                 num == sign \o caps.g2
                 r == ParseI64(num)
             IN  IF r.ok
                 THEN IF r.val = Zero
                      THEN Ok(PlusZero)
                      ELSE Ok(TakeNum(r.val))
                 ELSE Err(val)
        ELSE Err(val)

\* mutant: +0 is an ordinary count
parse_num_nozero(val) ==
    LET caps == Captures(val)
    IN  IF caps.matched
        THEN LET sign == IF caps.g1 = <<>> THEN <<"-">> ELSE caps.g1
                 num == sign \o caps.g2
                 r == ParseI64(num)
             IN  IF r.ok
                 THEN Ok(TakeNum(r.val))
                 ELSE Err(val)
        ELSE Err(val)

parse_num(val) ==
    LET caps == Captures(val)
    IN  IF caps.matched
        THEN LET sign == IF caps.g1 = <<>> THEN <<"-">> ELSE caps.g1
                 num == sign \o caps.g2
                 r == ParseI64(num)
             IN  IF r.ok
                 THEN IF sign = <<"+">> /\ r.val = Zero
                      THEN Ok(PlusZero)
                      ELSE Ok(TakeNum(r.val))
                 ELSE Err(val)
        ELSE Err(val)

-----------------------------------------------------------------------------
(* get_start_index.                                                        *)

Some(k) == [some |-> TRUE, idx |-> k]
None == [some |-> FALSE]

One == Num(FALSE, <<1>>)

\* 2^64, the distance between an out-of-range result and its wrapped value
TwoTo64 == NumAdd(NumAdd(I64Max, I64Max), Num(FALSE, <<2>>))

WrapI64(a) ==
    IF InI64(a) THEN a
    ELSE IF NumLt(I64Max, a) THEN NumSub(a, TwoTo64)
    ELSE NumAdd(a, TwoTo64)

\* mutants of the two operations: the operand dropped
I64Add_first(a, b) == a
I64Sub_first(a, b) == a

\* i64 + and - as the release build computes them
I64Add(a, b) == WrapI64(NumAdd(a, b))
I64Sub(a, b) == WrapI64(NumSub(a, b))

\* mutant: a start at or past the total is let through, the test is num > total + 1
get_start_index_pastend(tv, tot) ==
    IF tv = PlusZero
    THEN IF NumLt(Zero, tot) THEN Some(Zero) ELSE None
    ELSE LET num == tv.num
         IN  IF num = Zero \/ tot = Zero \/ NumLt(I64Add(tot, One), num)
             THEN None
             ELSE LET start == IF NumLt(num, Zero) THEN I64Add(tot, num)
                                                  ELSE I64Sub(num, One)
                  IN  Some(IF NumLt(start, Zero) THEN Zero ELSE start)

\* mutant: the test num > total left out
get_start_index_noexceed(tv, tot) ==
    IF tv = PlusZero
    THEN IF NumLt(Zero, tot) THEN Some(Zero) ELSE None
    ELSE LET num == tv.num
         IN  IF num = Zero \/ tot = Zero
             THEN None
             ELSE LET start == IF NumLt(num, Zero) THEN I64Add(tot, num)
                                                  ELSE I64Sub(num, One)
                  IN  Some(IF NumLt(start, Zero) THEN Zero ELSE start)

\* mutant: +0 answers Some(0) whatever the total
get_start_index_anytotal(tv, tot) ==
    IF tv = PlusZero
    THEN Some(Zero)
    ELSE LET num == tv.num
         IN  IF num = Zero \/ tot = Zero \/ NumLt(tot, num)
             THEN None
             ELSE LET start == IF NumLt(num, Zero) THEN I64Add(tot, num)
                                                  ELSE I64Sub(num, One)
                  IN  Some(IF NumLt(start, Zero) THEN Zero ELSE start)

get_start_index(tv, tot) ==
    IF tv = PlusZero
    THEN IF NumLt(Zero, tot) THEN Some(Zero) ELSE None
    ELSE LET num == tv.num
         IN  IF num = Zero \/ tot = Zero \/ NumLt(tot, num)
             THEN None
             ELSE LET start == IF NumLt(num, Zero) THEN I64Add(tot, num)
                                                  ELSE I64Sub(num, One)
                  IN  Some(IF NumLt(start, Zero) THEN Zero ELSE start)

\* mutant: the negative arm written as total - num.abs()
StartArithmetic_abs(tv, tot) ==
    IF tv = PlusZero THEN <<>>
    ELSE LET num == tv.num
         IN  IF num = Zero \/ tot = Zero \/ NumLt(tot, num) THEN <<>>
             ELSE IF NumLt(num, Zero)
                  THEN <<NumNeg(num), NumSub(tot, NumNeg(num))>>
                  ELSE <<NumSub(num, One)>>

\* the exact values of the i64 additions and subtractions get_start_index
\* performs on (tv, tot), in order: none on the arms that return early
StartArithmetic(tv, tot) ==
    IF tv = PlusZero THEN <<>>
    ELSE LET num == tv.num
         IN  IF num = Zero \/ tot = Zero \/ NumLt(tot, num) THEN <<>>
             ELSE IF NumLt(num, Zero)
                  THEN <<NumAdd(tot, num)>>
                  ELSE <<NumSub(num, One)>>

\* the call aborted: "attempt to add/subtract with overflow"
Panicked == [some |-> FALSE, panic |-> TRUE]

\* what a call get_start_index(tv, tot) can produce: an operation that leaves
\* the i64 range panics in a build with overflow checks and wraps in one
\* without
StartOutcomes(tv, tot) ==
    LET exact == StartArithmetic(tv, tot)
    IN  IF \E i \in 1..Len(exact) : ~InI64(exact[i])
        THEN {Panicked, get_start_index(tv, tot)}
        ELSE {get_start_index(tv, tot)}

-----------------------------------------------------------------------------
(* String::from_utf8_lossy.                                                *)

\* U+FFFD REPLACEMENT CHARACTER in UTF-8
Replacement == <<239, 191, 189>>

IsCont(b) == b \in 128..191

\* the byte at index i, or 0 past the end (safe_get)
ByteAt(bs, i) == IF i <= Len(bs) THEN bs[i] ELSE 0

\* utf8_char_width of a leading byte
Utf8Width(b) ==
    IF b < 128 THEN 1
    ELSE IF b \in 194..223 THEN 2
    ELSE IF b \in 224..239 THEN 3
    ELSE IF b \in 240..244 THEN 4
    ELSE 0

\* the second bytes a leading byte of width 3 or 4 admits
SecondBytes(b) ==
    IF b = 224 THEN 160..191
    ELSE IF b = 237 THEN 128..159
    ELSE IF b = 240 THEN 144..191
    ELSE IF b = 244 THEN 128..143
    ELSE 128..191

\* the first chunk of a non-empty bs: a whole character (valid), or the
\* longest prefix of a character that then breaks off (one replacement)
Utf8Step(bs) ==
    LET w == Utf8Width(bs[1])
    IN  IF w = 1 THEN [valid |-> TRUE, len |-> 1]
        ELSE IF w = 0 THEN [valid |-> FALSE, len |-> 1]
        ELSE IF w = 2
             THEN IF IsCont(ByteAt(bs, 2)) THEN [valid |-> TRUE, len |-> 2]
                                           ELSE [valid |-> FALSE, len |-> 1]
        ELSE IF ByteAt(bs, 2) \notin SecondBytes(bs[1]) THEN [valid |-> FALSE, len |-> 1]
        ELSE IF ~IsCont(ByteAt(bs, 3)) THEN [valid |-> FALSE, len |-> 2]
        ELSE IF w = 3 THEN [valid |-> TRUE, len |-> 3]
        ELSE IF ~IsCont(ByteAt(bs, 4)) THEN [valid |-> FALSE, len |-> 3]
        ELSE [valid |-> TRUE, len |-> 4]

RECURSIVE from_utf8_lossy(_)
from_utf8_lossy(bs) ==
    IF bs = <<>> THEN <<>>
    ELSE LET st == Utf8Step(bs)
             rest == SubSeq(bs, st.len + 1, Len(bs))
         IN  (IF st.valid THEN SubSeq(bs, 1, st.len) ELSE Replacement)
                 \o from_utf8_lossy(rest)

-----------------------------------------------------------------------------
(* Reading a file: read_until, count_lines_bytes, print_lines, print_bytes.*)

Newline == 10

\* the index of the first Newline of data after position pos, or Len(data)
RECURSIVE RecordEnd(_, _)
RecordEnd(data, pos) ==
    IF pos >= Len(data) THEN Len(data)
    ELSE IF data[pos + 1] = Newline THEN pos + 1
    ELSE RecordEnd(data, pos + 1)

\* file.read_until(b'\n', &mut buf) with the cursor at pos and buf empty:
\* the bytes up to and including the next newline, or to the end of file
read_until(data, pos) == SubSeq(data, pos + 1, RecordEnd(data, pos))

\* mutant: a record counts as a line only when a newline ends it
RECURSIVE CountLoop_terminated(_, _, _, _)
CountLoop_terminated(data, pos, num_lines, num_bytes) ==
    LET buf == read_until(data, pos)
        bytes_read == Len(buf)
    IN  IF bytes_read = 0 THEN <<num_lines, num_bytes>>
        ELSE CountLoop_terminated(data, pos + bytes_read,
                       IF buf[bytes_read] = Newline
                       THEN I64Add(num_lines, One) ELSE num_lines,
                       I64Add(num_bytes, FromInt(bytes_read)))

RECURSIVE CountLoop(_, _, _, _)
CountLoop(data, pos, num_lines, num_bytes) ==
    LET buf == read_until(data, pos)
        bytes_read == Len(buf)
    IN  IF bytes_read = 0 THEN <<num_lines, num_bytes>>
        ELSE CountLoop(data, pos + bytes_read,
                       I64Add(num_lines, One),
                       I64Add(num_bytes, FromInt(bytes_read)))

count_lines_bytes(data) == CountLoop(data, 0, Zero, Zero)

ReadOp(buf) == [op |-> "read", data |-> buf]
SeekOp(start) == [op |-> "seek", pos |-> start]

\* what a streamer did: the print! calls and the operations on the handle
Streamed(printed, done) == [printed |-> printed, ops |-> done]

\* mutant: the loop's test is line_num > start
RECURSIVE PrintLoop_gt(_, _, _, _, _)
PrintLoop_gt(data, pos, line_num, start, acc) ==
    LET buf == read_until(data, pos)
        bytes_read == Len(buf)
        done == Append(acc.ops, ReadOp(buf))
    IN  IF bytes_read = 0 THEN Streamed(acc.printed, done)
        ELSE PrintLoop_gt(data, pos + bytes_read, NumAdd(line_num, One), start,
                 Streamed(IF NumLt(start, line_num)
                          THEN Append(acc.printed, from_utf8_lossy(buf))
                          ELSE acc.printed,
                          done))

\* mutant: a record is printed only when a newline ends it
RECURSIVE PrintLoop_terminated(_, _, _, _, _)
PrintLoop_terminated(data, pos, line_num, start, acc) ==
    LET buf == read_until(data, pos)
        bytes_read == Len(buf)
        done == Append(acc.ops, ReadOp(buf))
    IN  IF bytes_read = 0 THEN Streamed(acc.printed, done)
        ELSE PrintLoop_terminated(data, pos + bytes_read, NumAdd(line_num, One), start,
                 Streamed(IF NumLe(start, line_num) /\ buf[bytes_read] = Newline
                          THEN Append(acc.printed, from_utf8_lossy(buf))
                          ELSE acc.printed,
                          done))

RECURSIVE PrintLoop(_, _, _, _, _)
PrintLoop(data, pos, line_num, start, acc) ==
    LET buf == read_until(data, pos)
        bytes_read == Len(buf)
        done == Append(acc.ops, ReadOp(buf))
    IN  IF bytes_read = 0 THEN Streamed(acc.printed, done)
        ELSE PrintLoop(data, pos + bytes_read, NumAdd(line_num, One), start,
                 Streamed(IF NumLe(start, line_num)
                          THEN Append(acc.printed, from_utf8_lossy(buf))
                          ELSE acc.printed,
                          done))

print_lines(data, num_lines, total_lines) ==
    LET r == get_start_index(num_lines, total_lines)
    IN  IF r.some THEN PrintLoop(data, 0, Zero, r.idx, Streamed(<<>>, <<>>))
        ELSE Streamed(<<>>, <<>>)

\* file.seek(SeekFrom::Start(start)): the new cursor
seek(start) == ToInt(start)

\* file.read_to_end(&mut buffer) with the cursor at pos
read_to_end(data, pos) == SubSeq(data, pos + 1, Len(data))

\* mutant: the seek left out, the copy starts at the handle's cursor, 0
print_bytes_noseek(data, num_bytes, total_bytes) ==
    LET r == get_start_index(num_bytes, total_bytes)
    IN  IF r.some
        THEN LET buffer == read_to_end(data, 0)
             IN  Streamed(IF buffer # <<>> THEN <<from_utf8_lossy(buffer)>> ELSE <<>>,
                          <<ReadOp(buffer)>>)
        ELSE Streamed(<<>>, <<>>)

\* mutant: without a start the copy is made from offset 0, unwrap_or(0)
print_bytes_unwrap(data, num_bytes, total_bytes) ==
    LET r == get_start_index(num_bytes, total_bytes)
        start == IF r.some THEN r.idx ELSE Zero
        buffer == read_to_end(data, seek(start))
    IN  Streamed(IF buffer # <<>> THEN <<from_utf8_lossy(buffer)>> ELSE <<>>,
                 <<SeekOp(start), ReadOp(buffer)>>)

print_bytes(data, num_bytes, total_bytes) ==
    LET r == get_start_index(num_bytes, total_bytes)
    IN  IF r.some
        THEN LET buffer == read_to_end(data, seek(r.idx))
             IN  Streamed(IF buffer # <<>> THEN <<from_utf8_lossy(buffer)>> ELSE <<>>,
                          <<SeekOp(r.idx), ReadOp(buffer)>>)
        ELSE Streamed(<<>>, <<>>)

-----------------------------------------------------------------------------
(* SpecParse: parse_num applied to tokens.                                 *)

MaxTokLen == 3

TokChars == {"+", "-", "0", "1", "7", ".", "x", ArabicThree}

RECURSIVE SeqsUpTo(_, _)
SeqsUpTo(S, n) ==
    IF n = 0 THEN {<<>>}
    ELSE LET shorter == SeqsUpTo(S, n - 1)
         IN  shorter \cup {Append(s, c) : s \in {t \in shorter : Len(t) = n - 1}, c \in S}

DigitChar(d) == CHOOSE c \in AsciiDigits : DigitValue(c) = d
MagChars(m) == [i \in 1..Len(m) |-> DigitChar(m[i])]

\* the digit runs around the ends of the i64 range
EdgeRuns ==
    LET max == I64Max.mag
        min == I64Min.mag
    IN  { MagChars(max), MagChars(min),
          MagChars(MagAddC(min, <<1>>, 0)), MagChars(MagSubB(max, <<1>>, 0)),
          MagChars(Append(max, 0)), <<"0">> \o MagChars(max), <<"0">> \o MagChars(min) }

EdgeTokens == EdgeRuns \cup {<<s>> \o r : s \in {"+", "-"}, r \in EdgeRuns}

Tokens == SeqsUpTo(TokChars, MaxTokLen) \cup EdgeTokens

NoResult == [ok |-> FALSE, msg |-> <<"not parsed">>]

\* the resolver's variables while a specification does not use them
NoTake == [tag |-> "none"]
NoStart == [some |-> FALSE, idle |-> TRUE]
ResolveIdle == take_val = NoTake /\ total = Zero /\ resolved = NoStart

\* the variables of find_lines and parse_pos while a specification does not
\* use them
NoMatches == [done |-> FALSE]
NoPositions == [ok |-> FALSE, msg |-> <<"not parsed">>]
FindIdle == file = <<>> /\ pattern = [given |-> FALSE] /\ matches = NoMatches
PosIdle == range = <<>> /\ positions = NoPositions
OtherIdle == tool = "tailr" /\ FindIdle /\ PosIdle

\* main's variables while a specification does not use them
NoConfig == [built |-> FALSE]
NoExtent == [counted |-> FALSE]
RunIdle ==
    /\ argv = [given |-> FALSE]
    /\ disk = <<>>
    /\ pc = "idle"
    /\ config = NoConfig
    /\ file_num = 0
    /\ extent = NoExtent
    /\ ops = <<>>
    /\ streamers = <<>>
    /\ stdout = <<>>
    /\ stderr = <<>>
    /\ exit_code = -1

\* the calls of one run
MaxCalls == 3

\* tokens of calls made before the one looked at
PriorTokens == {<<"+", "0">>, <<"-", "7">>, <<"x">>}

InitParse ==
    /\ token \in Tokens
    /\ parsed = NoResult
    /\ calls = 0
    /\ num_re = "unset"
    /\ ResolveIdle
    /\ RunIdle
    /\ OtherIdle

\* OnceCell::get_or_init: the first call fills the cell, it is never replaced
get_or_init(cell) == IF cell = "unset" THEN "set" ELSE cell

\* the call aborted on an unwrap
ParsePanicked == [ok |-> FALSE, msg |-> <<"panic">>]

\* mutant: the cell filled with NUM_RE.set(..).unwrap(), which panics once
\* the cell is full
ParseNum_set ==
    /\ calls < MaxCalls
    /\ calls' = calls + 1
    /\ num_re' = "set"
    /\ parsed' = IF num_re = "unset" THEN parse_num(token) ELSE ParsePanicked
    /\ UNCHANGED <<token, resolveVars, runVars, otherVars>>

\* one call parse_num(token): NUM_RE.get_or_init, then the match and the
\* parse; the same token can be parsed again
ParseNum ==
    /\ calls < MaxCalls
    /\ calls' = calls + 1
    /\ num_re' = get_or_init(num_re)
    /\ parsed' = parse_num(token)
    /\ UNCHANGED <<token, resolveVars, runVars, otherVars>>

\* an earlier call of parse_num on another token, its result used elsewhere:
\* what it leaves behind is NUM_RE
ParsePrior ==
    /\ parsed = NoResult
    /\ calls < MaxCalls
    /\ \E w \in PriorTokens :
          /\ parse_num(w) # ParsePanicked
          /\ num_re' = get_or_init(num_re)
    /\ calls' = calls + 1
    /\ UNCHANGED <<token, parsed, resolveVars, runVars, otherVars>>

NextParse == ParseNum \/ ParsePrior

SpecParse == InitParse /\ [][NextParse]_vars

-----------------------------------------------------------------------------
(* SpecResolve: get_start_index applied to selections and totals.          *)

MaxTotal == 5

\* the i64 values at the ends of the range
EdgeNums == {I64Min, NumAdd(I64Min, One), NumSub(I64Max, One), I64Max}

Counts == {FromInt(n) : n \in -(MaxTotal + 2)..(MaxTotal + 2)} \cup EdgeNums

Totals == {FromInt(n) : n \in 0..MaxTotal} \cup {NumSub(I64Max, One), I64Max}

TakeValues == {PlusZero} \cup {TakeNum(n) : n \in Counts}

InitResolve ==
    /\ take_val \in TakeValues
    /\ total \in Totals
    /\ resolved = NoStart
    /\ token = <<>> /\ parsed = NoResult /\ calls = 0 /\ num_re = "unset"
    /\ RunIdle
    /\ OtherIdle

Resolve ==
    /\ resolved = NoStart
    /\ resolved' \in StartOutcomes(take_val, total)
    /\ UNCHANGED <<take_val, total, parseVars, num_re, runVars, otherVars>>

NextResolve == Resolve

SpecResolve == InitResolve /\ [][NextResolve]_vars

-----------------------------------------------------------------------------
(* Spec: main, get_args and run on a command line and a set of files.      *)

MaxFileLen == 3

\* the bytes files are made of: newline, "a", and 0xC3, the first byte of
\* a two-byte character, which without its second byte is not valid UTF-8
FileBytes == {Newline, 97, 195}

Contents == SeqsUpTo(FileBytes, MaxFileLen)

File(data) == [exists |-> TRUE, dir |-> FALSE, data |-> data]
NoFile == [exists |-> FALSE, dir |-> FALSE, data |-> <<>>]

\* a directory: File::open succeeds on it, every read fails
Dir == [exists |-> TRUE, dir |-> TRUE, data |-> <<>>]

\* the FILE arguments: one file, two files either way round, a missing file
\* before and between, a directory before
ArgLists ==
    { <<"f1">>, <<"f1", "f2">>, <<"f2", "f1">>, <<"nofile", "f1">>,
      <<"f1", "nofile", "f2">>, <<"dir", "f1">> }

Disks ==
    { [n \in {"f1", "f2", "nofile", "dir"} |->
          IF n = "f1" THEN File(d)
          ELSE IF n = "f2" THEN File(<<97, Newline, 195, 169>>)
          ELSE IF n = "dir" THEN Dir
          ELSE NoFile] : d \in Contents }

\* the values of -n / -c: counts from the start and from the end around the
\* sizes of the files, a count without sign, and two tokens that do not parse
CountTokens ==
    {<<s, DigitChar(k)>> : s \in {"+", "-"}, k \in 0..(MaxFileLen + 1)}
        \cup {<<"2">>, <<"x">>, <<"1", ".", "0">>}

Given(t) == [given |-> TRUE, tok |-> t]
NotGiven == [given |-> FALSE, tok |-> <<>>]

\* clap: -c conflicts with -n, so at most one of them is on the command line
Argvs ==
    { [lines |-> l, bytes |-> b, quiet |-> q, files |-> fs] :
        l \in {NotGiven} \cup {Given(t) : t \in CountTokens},
        b \in {NotGiven} \cup {Given(t) : t \in CountTokens},
        q \in BOOLEAN, fs \in ArgLists }

Init ==
    /\ argv \in {a \in Argvs : ~(a.lines.given /\ a.bytes.given)}
    /\ disk \in Disks
    /\ pc = "get_args"
    /\ config = NoConfig
    /\ file_num = 1
    /\ extent = NoExtent
    /\ ops = <<>>
    /\ streamers = <<>>
    /\ stdout = <<>>
    /\ stderr = <<>>
    /\ exit_code = -1
    /\ num_re = "unset"
    /\ token = <<>> /\ parsed = NoResult /\ calls = 0
    /\ ResolveIdle
    /\ OtherIdle

\* .default_value("10")
DefaultLines == <<"1", "0">>

\* main's Err arm: eprintln!("{}", e); std::process::exit(1)
Fail(e) ==
    /\ stderr' = Append(stderr, e)
    /\ exit_code' = 1
    /\ pc' = "exit"

\* mutant: an invalid token is reported and the default of 10 lines taken
GetArgs_report ==
    /\ pc = "get_args"
    /\ num_re' = get_or_init(num_re)
    /\ LET lines == parse_num(IF argv.lines.given THEN argv.lines.tok ELSE DefaultLines)
           bytes == IF argv.bytes.given THEN parse_num(argv.bytes.tok) ELSE Ok(None)
       IN  /\ stderr' = IF ~lines.ok
                         THEN Append(stderr, [error |-> "illegal line count -- ", detail |-> lines.msg])
                         ELSE IF ~bytes.ok
                         THEN Append(stderr, [error |-> "illegal byte count -- ", detail |-> bytes.msg])
                         ELSE stderr
           /\ config' = [built |-> TRUE,
                         files |-> argv.files,
                         lines |-> IF lines.ok THEN lines.val ELSE parse_num(DefaultLines).val,
                         bytes |-> IF argv.bytes.given /\ bytes.ok THEN Some(bytes.val) ELSE None,
                         quiet |-> argv.quiet]
           /\ pc' = "open"
    /\ UNCHANGED <<streamers, argv, disk, file_num, extent, ops, stdout, exit_code, parseVars, resolveVars, otherVars>>

\* mutant: a byte count that does not parse is dropped, .ok() for ?
GetArgs_okbytes ==
    /\ pc = "get_args"
    /\ num_re' = get_or_init(num_re)
    /\ LET lines == parse_num(IF argv.lines.given THEN argv.lines.tok ELSE DefaultLines)
           bytes == IF argv.bytes.given THEN parse_num(argv.bytes.tok) ELSE Ok(None)
       IN  IF ~lines.ok
           THEN Fail([error |-> "illegal line count -- ", detail |-> lines.msg])
                /\ UNCHANGED config
           ELSE /\ config' = [built |-> TRUE,
                              files |-> argv.files,
                              lines |-> lines.val,
                              bytes |-> IF argv.bytes.given /\ bytes.ok THEN Some(bytes.val) ELSE None,
                              quiet |-> argv.quiet]
                /\ pc' = "open"
                /\ UNCHANGED <<stderr, exit_code>>
    /\ UNCHANGED <<streamers, argv, disk, file_num, extent, ops, stdout, parseVars, resolveVars, otherVars>>

\* get_args after clap: both tokens parsed, lines first, then the Config
GetArgs ==
    /\ pc = "get_args"
    /\ num_re' = get_or_init(num_re)
    /\ LET lines == parse_num(IF argv.lines.given THEN argv.lines.tok ELSE DefaultLines)
           bytes == IF argv.bytes.given THEN parse_num(argv.bytes.tok) ELSE Ok(None)
       IN  IF ~lines.ok
           THEN Fail([error |-> "illegal line count -- ", detail |-> lines.msg])
                /\ UNCHANGED config
           ELSE IF ~bytes.ok
           THEN Fail([error |-> "illegal byte count -- ", detail |-> bytes.msg])
                /\ UNCHANGED config
           ELSE /\ config' = [built |-> TRUE,
                              files |-> argv.files,
                              lines |-> lines.val,
                              bytes |-> IF argv.bytes.given THEN Some(bytes.val) ELSE None,
                              quiet |-> argv.quiet]
                /\ pc' = "open"
                /\ UNCHANGED <<stderr, exit_code>>
    /\ UNCHANGED <<streamers, argv, disk, file_num, extent, ops, stdout, parseVars, resolveVars, otherVars>>

InLoop == pc = "open" /\ file_num <= Len(config.files)
filename == config.files[file_num]

\* File::open(filename) fails: the message, then the next file
OpenErr ==
    /\ InLoop
    /\ ~disk[filename].exists
    /\ stderr' = Append(stderr, [error |-> filename, detail |-> "No such file or directory"])
    /\ file_num' = file_num + 1
    /\ UNCHANGED <<streamers, argv, disk, pc, config, extent, ops, stdout, exit_code,
                   num_re, parseVars, resolveVars, otherVars>>

Header == [file |-> file_num, kind |-> "header",
           text |-> <<IF file_num - 1 > 0 THEN "\n" ELSE "", "==> ", filename, " <==">>]
Data(bs) == [file |-> file_num, kind |-> "data", text |-> bs]

\* File::open(filename) succeeds: the header when there are several files
OpenOk ==
    /\ InLoop
    /\ disk[filename].exists
    /\ stdout' = IF ~config.quiet /\ Len(config.files) > 1
                 THEN Append(stdout, Header) ELSE stdout
    /\ pc' = "count"
    /\ UNCHANGED <<streamers, argv, disk, config, file_num, extent, ops, stderr, exit_code,
                   num_re, parseVars, resolveVars, otherVars>>

\* mutant: the totals are counted for the first file and kept for the others
CountPass_once ==
    /\ pc = "count"
    /\ ~disk[filename].dir
    /\ LET r == count_lines_bytes(disk[filename].data)
       IN  extent' = IF extent.counted THEN extent
                     ELSE [counted |-> TRUE, file |-> file_num,
                           total_lines |-> r[1], total_bytes |-> r[2]]
    /\ pc' = "stream"
    /\ UNCHANGED <<streamers, argv, disk, config, file_num, ops, stdout, stderr, exit_code,
                   num_re, parseVars, resolveVars, otherVars>>

\* let (total_lines, total_bytes) = count_lines_bytes(filename)?
CountPass ==
    /\ pc = "count"
    /\ ~disk[filename].dir
    /\ LET r == count_lines_bytes(disk[filename].data)
       IN  extent' = [counted |-> TRUE, file |-> file_num,
                      total_lines |-> r[1], total_bytes |-> r[2]]
    /\ pc' = "stream"
    /\ UNCHANGED <<streamers, argv, disk, config, file_num, ops, stdout, stderr, exit_code,
                   num_re, parseVars, resolveVars, otherVars>>

\* a call of a streamer for the current file, with the total it is given
Call(fn, tot) == [file |-> file_num, fn |-> fn, total |-> tot]

\* std::io::Error as main prints it: the text of the OS error and no more
IoError(text) == [error |-> text, detail |-> ""]

\* the texts of the read and seek failures
IoErrors == {"Is a directory (os error 21)", "Input/output error (os error 5)"}

\* count_lines_bytes(filename)? when read_until fails: run returns the error
CountErr ==
    /\ pc = "count"
    /\ disk[filename].dir
    /\ Fail(IoError("Is a directory (os error 21)"))
    /\ UNCHANGED <<streamers, argv, disk, config, file_num, extent, ops, stdout,
                   num_re, parseVars, resolveVars, otherVars>>

\* print_bytes(..)? / print_lines(..)? when the device fails the first seek
\* or read on the handle: nothing is printed, run returns the error
StreamErr ==
    /\ pc = "stream"
    /\ Fail(IoError("Input/output error (os error 5)"))
    /\ streamers' = Append(streamers, IF config.bytes.some
                                      THEN Call("print_bytes", extent.total_bytes)
                                      ELSE Call("print_lines", extent.total_lines))
    /\ UNCHANGED <<argv, disk, config, file_num, extent, ops, stdout,
                   num_re, parseVars, resolveVars, otherVars>>

\* the streamer's print! calls and handle operations, as run's state
Emit(r) ==
    /\ stdout' = stdout \o [j \in 1..Len(r.printed) |-> Data(r.printed[j])]
    /\ ops' = ops \o [j \in 1..Len(r.ops) |-> [file |-> file_num, call |-> r.ops[j]]]
    /\ file_num' = file_num + 1
    /\ pc' = "open"

\* mutant: the else arm taken whatever config.bytes is
PrintLines_always ==
    /\ pc = "stream"
    /\ Emit(print_lines(disk[filename].data, config.lines, extent.total_lines))
    /\ streamers' = Append(streamers, Call("print_lines", extent.total_lines))
    /\ UNCHANGED <<argv, disk, config, extent, stderr, exit_code,
                   num_re, parseVars, resolveVars, otherVars>>

\* print_bytes(file, num_bytes, total_bytes)?
PrintBytes ==
    /\ pc = "stream"
    /\ config.bytes.some
    /\ Emit(print_bytes(disk[filename].data, config.bytes.idx, extent.total_bytes))
    /\ streamers' = Append(streamers, Call("print_bytes", extent.total_bytes))
    /\ UNCHANGED <<argv, disk, config, extent, stderr, exit_code,
                   num_re, parseVars, resolveVars, otherVars>>

\* print_lines(file, &config.lines, total_lines)?
PrintLines ==
    /\ pc = "stream"
    /\ ~config.bytes.some
    /\ Emit(print_lines(disk[filename].data, config.lines, extent.total_lines))
    /\ streamers' = Append(streamers, Call("print_lines", extent.total_lines))
    /\ UNCHANGED <<argv, disk, config, extent, stderr, exit_code,
                   num_re, parseVars, resolveVars, otherVars>>

\* the loop is over: run returns Ok(()) and main ends
RunOk ==
    /\ pc = "open"
    /\ file_num > Len(config.files)
    /\ exit_code' = 0
    /\ pc' = "exit"
    /\ UNCHANGED <<streamers, argv, disk, config, file_num, extent, ops, stdout, stderr,
                   num_re, parseVars, resolveVars, otherVars>>

Next ==
    \/ GetArgs
    \/ OpenErr
    \/ OpenOk
    \/ CountPass
    \/ CountErr
    \/ PrintBytes
    \/ PrintLines
    \/ StreamErr
    \/ RunOk

Spec == Init /\ [][Next]_vars

-----------------------------------------------------------------------------
(* Properties of the whole pass over a file, checked under Spec.           *)

\* the lines of a file: each ends with its newline, but for a last line
\* that the end of the file cuts off
FirstNewline(d) ==
    IF \E i \in 1..Len(d) : d[i] = Newline
    THEN CHOOSE i \in 1..Len(d) : d[i] = Newline /\ \A j \in 1..(i - 1) : d[j] # Newline
    ELSE Len(d)

RECURSIVE LinesOf(_)
LinesOf(d) ==
    IF d = <<>> THEN <<>>
    ELSE <<SubSeq(d, 1, FirstNewline(d))>> \o LinesOf(SubSeq(d, FirstNewline(d) + 1, Len(d)))

\* valid UTF-8: every chunk of the bytes is a whole character
RECURSIVE IsUtf8(_)
IsUtf8(bs) ==
    \/ bs = <<>>
    \/ /\ Utf8Step(bs).valid
       /\ IsUtf8(SubSeq(bs, Utf8Step(bs).len + 1, Len(bs)))

\* file i of the command line was opened and its streamer has returned
Handled(i) == config.built /\ i < file_num /\ disk[config.files[i]].exists
DataOf(i) == disk[config.files[i]].data

\* what the print! calls for file i wrote, one element per call
PrintedFor(i) ==
    LET es == SelectSeq(stdout, LAMBDA e : e.file = i /\ e.kind = "data")
    IN  [j \in 1..Len(es) |-> es[j].text]

\* the operations on the handle run opened for file i
CallsFor(i) ==
    LET es == SelectSeq(ops, LAMBDA e : e.file = i)
    IN  [j \in 1..Len(es) |-> es[j].call]

Min(a, b) == IF a < b THEN a ELSE b

\* the lines the three selections of C1 name: lines from..L of the L lines
FromLine(ls, from) == SubSeq(ls, from, Len(ls))

\* the selection applies to the lines ls and picks these
C1_Covered(sel, ls) ==
    /\ Len(ls) >= 1
    /\ \/ sel = PlusZero
       \/ sel # PlusZero /\ Negative(sel.num)
       \/ sel # PlusZero /\ Positive(sel.num) /\ NumLe(sel.num, FromInt(Len(ls)))

C1_Selected(sel, ls) ==
    IF sel = PlusZero THEN ls
    ELSE IF Negative(sel.num)
         THEN FromLine(ls, Len(ls) - Min(-ToInt(sel.num), Len(ls)) + 1)
         ELSE FromLine(ls, ToInt(sel.num))

C2_SeeksAndSelectsSuffix ==
    \A i \in 1..Len(argv.files) :
        (Handled(i) /\ config.bytes.some /\ Len(DataOf(i)) >= 1)
            => LET d == DataOf(i)
                   B == Len(d)
                   sel == config.bytes.idx
                   r == get_start_index(sel, FromInt(B))
               IN  /\ r.some =>
                        /\ ToInt(r.idx) \in 0..(B - 1)
                        /\ CallsFor(i) = <<SeekOp(r.idx),
                                           ReadOp([j \in 1..(B - ToInt(r.idx)) |->
                                                      d[ToInt(r.idx) + j]])>>
                   /\ (sel # PlusZero /\ Negative(sel.num) /\ -ToInt(sel.num) <= B) =>
                        LET k == -ToInt(sel.num)
                        IN  CallsFor(i) = <<SeekOp(FromInt(B - k)),
                                            ReadOp(SubSeq(d, B - k + 1, B))>>

C2_Witness ==
    /\ pc = "exit"
    /\ exit_code = 0
    /\ config.files = <<"f1">>
    /\ disk["f1"].data = <<97, Newline, 195>>
    /\ config.bytes = Some(TakeNum(FromInt(-2)))
    /\ ops = <<[file |-> 1, call |-> SeekOp(FromInt(1))],
               [file |-> 1, call |-> ReadOp(<<Newline, 195>>)]>>

\* the newline bytes of d, and whether bytes follow the last of them
Newlines(d) == Cardinality({i \in 1..Len(d) : d[i] = Newline})
Fragment(d) == d # <<>> /\ d[Len(d)] # Newline

\* C15: the counting pass returns the number of newline-terminated records,
\* plus one when a non-empty fragment without newline ends the file, and the
\* number of bytes of the file; an empty file gives (0, 0).
C15_CountsRecordsAndBytes ==
    extent.counted =>
        LET d == DataOf(extent.file)
        IN  /\ extent.total_lines = FromInt(Newlines(d) + IF Fragment(d) THEN 1 ELSE 0)
            /\ extent.total_bytes = FromInt(Len(d))
            /\ d = <<>> => extent.total_lines = Zero /\ extent.total_bytes = Zero

C15_Witness ==
    /\ extent.counted
    /\ DataOf(extent.file) = <<97, Newline, 97>>
    /\ extent.total_lines = FromInt(2)
    /\ extent.total_bytes = FromInt(3)

\* C16: the files are handled one at a time, in the order given: when the
\* streaming of a file starts its counting pass is over and the totals are
\* the ones counted for that file; print calls and handle operations never
\* go back to an earlier file, and a file's header precedes its data.
C16_OneFileAtATime ==
    /\ pc = "stream" =>
          /\ extent.counted /\ extent.file = file_num
          /\ extent.total_lines = FromInt(Len(LinesOf(DataOf(file_num))))
          /\ extent.total_bytes = FromInt(Len(DataOf(file_num)))
    /\ \A k \in 1..Len(stdout) :
          /\ stdout[k].file <= file_num
          /\ stdout[k].kind = "data" => extent.counted /\ stdout[k].file <= extent.file
          /\ \A j \in 1..(k - 1) :
                /\ stdout[j].file <= stdout[k].file
                /\ stdout[j].file = stdout[k].file => stdout[k].kind = "data"
    /\ \A k \in 1..Len(ops) :
          /\ ops[k].file <= extent.file
          /\ \A j \in 1..(k - 1) : ops[j].file <= ops[k].file

C16_Witness ==
    /\ pc = "exit"
    /\ config.built
    /\ Len(config.files) = 2
    /\ \E j, k \in 1..Len(stdout) :
          /\ j < k
          /\ stdout[j].kind = "data" /\ stdout[j].file = 1
          /\ stdout[k].kind = "data" /\ stdout[k].file = 2
    /\ \E k \in 1..Len(ops) : ops[k].file = 2

-----------------------------------------------------------------------------
(* Properties of parse_num, checked under SpecParse.                       *)

\* the grammar [+-]?[0-9]+ over the whole token
HasSign(t) == t # <<>> /\ Head(t) \in {"+", "-"}
DigitRun(t) == IF HasSign(t) THEN Tail(t) ELSE t
IsGrammar(t) ==
    /\ DigitRun(t) # <<>>
    /\ \A i \in 1..Len(DigitRun(t)) : DigitRun(t)[i] \in AsciiDigits

\* the value v of the digit run, and the value the token denotes
RunValue(t) == Num(FALSE, [i \in 1..Len(DigitRun(t)) |-> DigitValue(DigitRun(t)[i])])
SignedValue(t) ==
    IF HasSign(t) /\ Head(t) = "+" THEN RunValue(t) ELSE NumNeg(RunValue(t))

Parsed == parsed # NoResult

\* C7: for a digit run d whose value v fits in an i64, the tokens d and -d
\* both parse to TakeNum(-v), and for v > 0 the token +d parses to TakeNum(v).
C7_SignSemantics ==
    (Parsed /\ IsGrammar(token) /\ NumLe(RunValue(token), I64Max)) =>
        /\ (~HasSign(token) \/ Head(token) = "-")
               => parsed = Ok(TakeNum(NumNeg(RunValue(token))))
        /\ (HasSign(token) /\ Head(token) = "+" /\ RunValue(token) # Zero)
               => parsed = Ok(TakeNum(RunValue(token)))

C7_Witness ==
    /\ token = <<"1", "7">>
    /\ parsed = Ok(TakeNum(FromInt(-17)))

\* C8: parse_num returns PlusZero exactly when the token has an explicit +
\* and its value is zero; the tokens 0 and -0 parse to TakeNum(0).
C8_PlusZeroIffPlusAndZero ==
    Parsed =>
        /\ (parsed = Ok(PlusZero))
               <=> (IsGrammar(token) /\ HasSign(token) /\ Head(token) = "+"
                    /\ RunValue(token) = Zero)
        /\ token \in {<<"0">>, <<"-", "0">>} => parsed = Ok(TakeNum(Zero))

C8_Witness ==
    /\ token = <<"-", "0">>
    /\ parsed = Ok(TakeNum(Zero))

\* C9 as stated: PlusZero is produced by the two-character token +0 alone.
C9_OnlyLiteralPlusZero ==
    (Parsed /\ token # <<"+", "0">>) => parsed # Ok(PlusZero)

\* C9 amended: PlusZero is produced only by a + followed by zeros alone
\* (+0, +00, +000, ...); no other token parses to PlusZero.
C9_OnlyPlusAndZeros ==
    (Parsed /\ parsed = Ok(PlusZero)) =>
        /\ Len(token) >= 2
        /\ Head(token) = "+"
        /\ \A i \in 2..Len(token) : token[i] = "0"

C9_Witness ==
    /\ token = <<"+", "0", "0">>
    /\ parsed = Ok(PlusZero)

\* C10: a token that is not [+-]?[0-9]+ over its full length, or whose
\* signed value lies outside the i64 range, is rejected, and the error's
\* message is the token itself.
C10_RejectsWithToken ==
    (Parsed /\ (~IsGrammar(token) \/ ~InI64(SignedValue(token))))
        => parsed = Err(token)

C10_Witness ==
    /\ IsGrammar(token)
    /\ HasSign(token) /\ Head(token) = "-"
    /\ ~InI64(SignedValue(token))
    /\ parsed = Err(token)

\* the digits of i64::MAX and of the magnitude of i64::MIN
MaxDigits == MagChars(I64Max.mag)
MinDigits == MagChars(I64Min.mag)

\* C11: the digits of i64::MAX without sign parse to TakeNum(i64::MIN + 1),
\* with + to TakeNum(i64::MAX), and the digits of i64::MIN with - parse to
\* TakeNum(i64::MIN): none fails or wraps around.
C11_Boundaries ==
    Parsed =>
        /\ token = MaxDigits => parsed = Ok(TakeNum(NumAdd(I64Min, One)))
        /\ token = <<"+">> \o MaxDigits => parsed = Ok(TakeNum(I64Max))
        /\ token = <<"-">> \o MinDigits => parsed = Ok(TakeNum(I64Min))

C11_Witness ==
    /\ token = <<"-">> \o MinDigits
    /\ parsed = Ok(TakeNum(I64Min))

\* C12 as stated: a token whose digit run is a magnitude above i64::MAX is
\* rejected, whatever its sign.
C12_MagnitudeAboveMaxRejected ==
    (Parsed /\ IsGrammar(token) /\ NumLt(I64Max, RunValue(token))) => ~parsed.ok

\* C12 amended: a token whose digit run is a magnitude above i64::MAX is
\* rejected, but for the magnitude 2^63 with - or without sign, which parses
\* to TakeNum(i64::MIN).
C12_MagnitudeAboveMax ==
    (Parsed /\ IsGrammar(token) /\ NumLt(I64Max, RunValue(token))) =>
        IF RunValue(token) = NumNeg(I64Min) /\ ~(HasSign(token) /\ Head(token) = "+")
        THEN parsed = Ok(TakeNum(I64Min))
        ELSE parsed = Err(token)

C12_Witness ==
    /\ token = MinDigits
    /\ parsed = Ok(TakeNum(I64Min))

\* what a token is to parse to, from the grammar and the value it denotes
Expected(t) ==
    IF IsGrammar(t) /\ InI64(SignedValue(t))
    THEN IF HasSign(t) /\ Head(t) = "+" /\ RunValue(t) = Zero
         THEN Ok(PlusZero)
         ELSE Ok(TakeNum(SignedValue(t)))
    ELSE Err(t)

\* C14: every call of parse_num returns a value or an error, never a panic,
\* and the result is a function of the token alone: it is the same whether
\* NUM_RE was set before the call or not, whichever calls were made before,
\* and parsing the token again gives the result again.
C14_TotalAndDeterministic ==
    [][parsed' # NoResult =>
          /\ parsed' # ParsePanicked
          /\ parsed' = Expected(token')
          /\ Parsed => parsed' = parsed]_vars

C14_Witness ==
    /\ calls = MaxCalls
    /\ num_re = "set"
    /\ token = <<"-", "7">>
    /\ parsed = Ok(TakeNum(FromInt(-7)))

-----------------------------------------------------------------------------
(* Properties of get_start_index, checked under SpecResolve.               *)

Resolved == resolved # NoStart
IsCount == take_val # PlusZero

\* C3: get_start_index(TakeNum(n), total) with n < 0 and total > 0 is
\* Some(max(0, total + n)).
C3_NegativeFromEnd ==
    (Resolved /\ IsCount /\ Negative(take_val.num) /\ Positive(total)) =>
        LET sum == NumAdd(total, take_val.num)
        IN  resolved = Some(IF Negative(sum) THEN Zero ELSE sum)

C3_Witness ==
    /\ take_val = TakeNum(FromInt(-2))
    /\ total = FromInt(5)
    /\ resolved = Some(FromInt(3))

\* C4: get_start_index(TakeNum(n), total) with 1 <= n <= total is Some(n - 1).
C4_PositiveFromStart ==
    (Resolved /\ IsCount /\ Positive(take_val.num) /\ NumLe(take_val.num, total)) =>
        resolved = Some(NumSub(take_val.num, One))

C4_Witness ==
    /\ take_val = TakeNum(FromInt(3))
    /\ total = FromInt(5)
    /\ resolved = Some(FromInt(2))

\* C5: get_start_index(TakeNum(n), total) is None when n = 0, when
\* total = 0, and when n > total > 0.
C5_NoneCases ==
    (Resolved /\ IsCount) =>
        /\ take_val.num = Zero => resolved = None
        /\ total = Zero => resolved = None
        /\ (Positive(total) /\ NumLt(total, take_val.num)) => resolved = None

C5_Witness ==
    /\ take_val = TakeNum(FromInt(4))
    /\ total = FromInt(3)
    /\ resolved = None

C13_NoOverflow ==
    (Resolved /\ IsCount /\ NumLe(Zero, total) /\ NumLe(total, I64Max)) =>
        LET n == take_val.num
            start == IF Negative(n) THEN NumAdd(total, n) ELSE NumSub(n, One)
        IN  /\ resolved # Panicked
            /\ resolved.some => /\ InI64(start)
                                /\ resolved.idx = IF Negative(start) THEN Zero ELSE start

C13_Witness ==
    /\ total = I64Max
    /\ take_val = TakeNum(I64Min)
    /\ resolved = Some(Zero)

-----------------------------------------------------------------------------
(* Properties of the errors of a run, checked under Spec.                  *)

\* a read or seek failure was reported
IoFailed == \E k \in 1..Len(stderr) : stderr[k].error \in IoErrors

\* C17 as stated: after a read or seek failure in the counting or streaming
\* pass of a file, every later file is still processed: at the end of the
\* run the loop has gone past each of them.
C17_FailureAbortsOnlyThatFile ==
    (pc = "exit" /\ IoFailed) =>
        \A i \in (file_num + 1)..Len(config.files) : i < file_num

\* the count tokens of the command line, and whether they are valid
LinesToken == IF argv.lines.given THEN argv.lines.tok ELSE DefaultLines
Valid(t) == IsGrammar(t) /\ InI64(SignedValue(t))
BadLines == ~Valid(LinesToken)
BadBytes == argv.bytes.given /\ ~Valid(argv.bytes.tok)

\* the message names the token or the file that failed
NamesItsSource(e) ==
    \/ e.error \in {argv.files[i] : i \in 1..Len(argv.files)}
    \/ e.error = "illegal line count -- " /\ e.detail = LinesToken
    \/ e.error = "illegal byte count -- " /\ e.detail = argv.bytes.tok

\* C18 as stated: every error has its message, and every message names the
\* failing token or the failing file.
C18_EveryErrorNamed ==
    /\ \A k \in 1..Len(stderr) : NamesItsSource(stderr[k])
    /\ exit_code = 1 => stderr # <<>>
    /\ config.built =>
          \A i \in 1..Len(config.files) :
              (i < file_num /\ ~disk[config.files[i]].exists) =>
                  \E k \in 1..Len(stderr) : stderr[k].error = config.files[i]

\* the one message of an invalid count token: the literal token after the label
TokenMessage ==
    IF BadLines THEN [error |-> "illegal line count -- ", detail |-> LinesToken]
    ELSE [error |-> "illegal byte count -- ", detail |-> argv.bytes.tok]

\* C19 as stated: an invalid count token is reported with the literal token
\* and the files of the command line are still processed.
C19_InvalidTokenNonFatal ==
    (pc = "exit" /\ (BadLines \/ BadBytes)) =>
        /\ TokenMessage \in {stderr[k] : k \in 1..Len(stderr)}
        /\ file_num > Len(argv.files)

\* C19 amended: an invalid count token is reported with the literal token
\* and is fatal: the run ends with status 1 and no file is processed.
C19_InvalidTokenFatal ==
    (pc # "get_args" /\ (BadLines \/ BadBytes)) =>
        /\ pc = "exit" /\ exit_code = 1
        /\ stderr = <<TokenMessage>>
        /\ ~config.built /\ file_num = 1 /\ ~extent.counted
        /\ stdout = <<>> /\ ops = <<>>

C19_Witness ==
    /\ pc = "exit" /\ exit_code = 1
    /\ argv.bytes = Given(<<"1", ".", "0">>)
    /\ argv.files = <<"f1", "f2">>
    /\ stderr = <<[error |-> "illegal byte count -- ", detail |-> <<"1", ".", "0">>]>>

\* a file was opened, counted or streamed, or something was written for one
SomeIO ==
    \/ pc \in {"open", "count", "stream"}
    \/ file_num > 1
    \/ extent.counted
    \/ stdout # <<>>
    \/ ops # <<>>
    \/ \E k \in 1..Len(stderr) :
           stderr[k].error \in IoErrors \cup {argv.files[i] : i \in 1..Len(argv.files)}

\* C20: no file is opened, counted or streamed, and nothing is written for a
\* file, before the line count and the byte count (when given) have both
\* been parsed with success.
C20_ParseBeforeIO ==
    SomeIO =>
        /\ pc # "get_args" /\ num_re = "set" /\ config.built
        /\ ~BadLines /\ ~BadBytes

C20_Witness ==
    /\ pc = "exit" /\ exit_code = 0
    /\ argv.bytes = Given(<<"-", "2">>)
    /\ argv.files = <<"nofile", "f1">>
    /\ Len(stderr) = 1
    /\ stdout # <<>> /\ ops # <<>>

-----------------------------------------------------------------------------
(* Properties of the streamers, checked under Spec.                        *)

\* the streamer calls made for file i
StreamersFor(i) == SelectSeq(streamers, LAMBDA c : c.file = i)

\* C21: for every file run has gone through, one streamer was called and
\* never both: print_bytes with the byte total when a byte count is given,
\* print_lines with the line total otherwise; only print_bytes seeks.
C21_ExactlyOneStreamer ==
    config.built =>
        \A i \in 1..Len(config.files) :
            LET cs == StreamersFor(i)
                f == disk[config.files[i]]
            IN  /\ Len(cs) <= 1
                /\ (i < file_num /\ f.exists) => Len(cs) = 1
                /\ ~f.exists => cs = <<>>
                /\ cs # <<>> =>
                      IF config.bytes.some
                      THEN /\ cs[1].fn = "print_bytes"
                           /\ cs[1].total = FromInt(Len(f.data))
                      ELSE /\ cs[1].fn = "print_lines"
                           /\ cs[1].total = FromInt(Len(LinesOf(f.data)))
                /\ \A k \in 1..Len(ops) :
                      (ops[k].file = i /\ ops[k].call.op = "seek") => config.bytes.some

C21_Witness ==
    /\ pc = "exit" /\ exit_code = 0
    /\ config.built /\ config.bytes.some
    /\ Len(config.files) = 2
    /\ Len(streamers) = 2
    /\ streamers[1].fn = "print_bytes" /\ streamers[2].fn = "print_bytes"
    /\ \E k \in 1..Len(ops) : ops[k].call.op = "seek"

\* file i went through print_lines and the start resolved is Some
LinesStart(i) == get_start_index(config.lines, FromInt(Len(LinesOf(DataOf(i)))))
LinesPass(i) == Handled(i) /\ ~config.bytes.some /\ LinesStart(i).some

\* the records of file i whose zero-based index is >= the start
FromStart(i) ==
    LET ls == LinesOf(DataOf(i))
    IN  SubSeq(ls, ToInt(LinesStart(i).idx) + 1, Len(ls))

\* one read per record, in order, and the read that finds the end
RecordReads(i) ==
    LET ls == LinesOf(DataOf(i))
    IN  [j \in 1..(Len(ls) + 1) |-> ReadOp(IF j <= Len(ls) THEN ls[j] ELSE <<>>)]

SelectionOf(i) == IF config.bytes.some THEN config.bytes.idx ELSE config.lines
TotalOf(i) ==
    IF config.bytes.some THEN FromInt(Len(DataOf(i)))
    ELSE FromInt(Len(LinesOf(DataOf(i))))
StartOf(i) == get_start_index(SelectionOf(i), TotalOf(i))

\* C25: when the start resolved for a file is None, its streamer makes no
\* seek and no read on the handle and writes nothing, in line mode and in
\* byte mode.
C25_NoneLeavesStreamAlone ==
    \A i \in 1..Len(argv.files) :
        (Handled(i) /\ ~StartOf(i).some) =>
            /\ Len(StreamersFor(i)) = 1
            /\ CallsFor(i) = <<>>
            /\ PrintedFor(i) = <<>>

C25_Witness ==
    /\ pc = "exit" /\ exit_code = 0
    /\ config.files = <<"f1">>
    /\ disk["f1"].data = <<97, Newline, 97>>
    /\ config.bytes = Some(TakeNum(FromInt(4)))
    /\ streamers = <<[file |-> 1, fn |-> "print_bytes", total |-> FromInt(3)]>>
    /\ ops = <<>> /\ stdout = <<>>

\* C26: a start Some(k) satisfies 0 <= k < total, and the streamer given it
\* writes at least one element; what a file's streamer writes is empty
\* exactly when the start is None.
C26_StartAddressesAnElement ==
    \A i \in 1..Len(argv.files) :
        Handled(i) =>
            LET r == StartOf(i)
            IN  /\ r.some => /\ NumLe(Zero, r.idx) /\ NumLt(r.idx, TotalOf(i))
                             /\ PrintedFor(i) # <<>>
                             /\ \A j \in 1..Len(PrintedFor(i)) : PrintedFor(i)[j] # <<>>
                /\ PrintedFor(i) = <<>> <=> ~r.some

C26_Witness ==
    /\ pc = "exit" /\ exit_code = 0
    /\ config.files = <<"f1">>
    /\ disk["f1"].data = <<97, Newline, 97>>
    /\ ~config.bytes.some
    /\ config.lines = TakeNum(FromInt(-4))
    /\ StartOf(1) = Some(Zero)
    /\ Len(PrintedFor(1)) = 2

-----------------------------------------------------------------------------
(* wcr: count and run.                                                     *)

\* the files of a command line cannot be opened with this error
NotFound == "No such file or directory (os error 2)"

\* file.read_line(&mut line) with the cursor at pos and line empty: the bytes
\* up to and including the next newline, which must be UTF-8; every read of
\* a directory fails
read_line(f, pos) ==
    LET buf == read_until(f.data, pos)
    IN  IF f.dir THEN Err("Is a directory (os error 21)")
        ELSE IF ~IsUtf8(buf) THEN Err("stream did not contain valid UTF-8")
        ELSE Ok(buf)

\* char::is_whitespace on the characters of the files: the ASCII ones
WhiteSpace == {9, 10, 11, 12, 13, 32}

\* line.split_whitespace().count(): the runs of bytes that are not white space
split_whitespace_count(line) ==
    Cardinality({i \in 1..Len(line) :
                    /\ line[i] \notin WhiteSpace
                    /\ (i = 1 \/ line[i - 1] \in WhiteSpace)})

\* line.chars().count(): the bytes that start a character
chars_count(line) == Cardinality({i \in 1..Len(line) : ~IsCont(line[i])})

FileInfo(l, w, b, c) == [num_lines |-> l, num_words |-> w, num_bytes |-> b, num_chars |-> c]

\* the loop of count: a line read, the four counters moved on
RECURSIVE CountInfo(_, _, _)
CountInfo(f, pos, info) ==
    LET r == read_line(f, pos)
    IN  IF ~r.ok THEN r
        ELSE IF Len(r.val) = 0 THEN Ok(info)
        ELSE CountInfo(f, pos + Len(r.val),
                 FileInfo(info.num_lines + 1,
                          info.num_words + split_whitespace_count(r.val),
                          info.num_bytes + Len(r.val),
                          info.num_chars + chars_count(r.val)))

count(f) == CountInfo(f, 0, FileInfo(0, 0, 0, 0))

\* format!("{:>8}", value) when the column is shown
format_field(value, show) == IF show THEN <<"{:>8}", value>> ELSE <<>>

\* the flags of wcr: none, -l, -w -c, -m
WcrFlags ==
    { [lines |-> FALSE, words |-> FALSE, bytes |-> FALSE, chars |-> FALSE],
      [lines |-> TRUE, words |-> FALSE, bytes |-> FALSE, chars |-> FALSE],
      [lines |-> FALSE, words |-> TRUE, bytes |-> TRUE, chars |-> FALSE],
      [lines |-> FALSE, words |-> FALSE, bytes |-> FALSE, chars |-> TRUE] }

WcrArgvs == { [flags |-> fl, files |-> fs] : fl \in WcrFlags, fs \in ArgLists }

\* a program other than tailr starts: nothing parsed, opened or written yet
Start(name, entry) ==
    /\ tool = name
    /\ pc = entry
    /\ disk \in Disks
    /\ config = NoConfig
    /\ file_num = 1
    /\ extent = NoExtent
    /\ ops = <<>>
    /\ streamers = <<>>
    /\ stdout = <<>>
    /\ stderr = <<>>
    /\ exit_code = -1
    /\ num_re = "unset"
    /\ token = <<>> /\ parsed = NoResult /\ calls = 0
    /\ ResolveIdle
    /\ FindIdle
    /\ PosIdle

InitWcr ==
    /\ argv \in WcrArgvs
    /\ Start("wcr", "wcr::get_args")

\* what the actions of wcr, catr and uniqr leave alone
Untouched ==
    UNCHANGED <<argv, disk, tool, extent, ops, streamers, num_re,
                parseVars, resolveVars, findVars, posVars>>

\* get_args: with no flag given, lines, words and bytes are shown
WcrGetArgs ==
    /\ pc = "wcr::get_args"
    /\ LET fl == argv.flags
           none == ~fl.lines /\ ~fl.words /\ ~fl.bytes /\ ~fl.chars
       IN  config' = [built |-> TRUE,
                      files |-> argv.files,
                      lines |-> (fl.lines \/ none),
                      words |-> (fl.words \/ none),
                      bytes |-> (fl.bytes \/ none),
                      chars |-> fl.chars]
    /\ pc' = "wcr::run"
    /\ UNCHANGED <<file_num, stdout, stderr, exit_code>>
    /\ Untouched

WcrInLoop == pc = "wcr::run" /\ file_num <= Len(config.files)

\* open(filename) fails: the message, then the next file
WcrOpenErr ==
    /\ WcrInLoop
    /\ ~disk[filename].exists
    /\ stderr' = Append(stderr, [file |-> file_num, error |-> filename, detail |-> NotFound])
    /\ file_num' = file_num + 1
    /\ UNCHANGED <<pc, config, stdout, exit_code>>
    /\ Untouched

\* the row of counts println! writes for the current file
Row(info) ==
    [file |-> file_num, kind |-> "row",
     text |-> <<format_field(info.num_lines, config.lines),
                format_field(info.num_words, config.words),
                format_field(info.num_chars, config.chars),
                format_field(info.num_bytes, config.bytes),
                IF filename = "-" THEN "" ELSE <<" ", filename>> >>]

\* if let Ok(info) = count(file): the row is printed
WcrRow ==
    /\ WcrInLoop
    /\ disk[filename].exists
    /\ count(disk[filename]).ok
    /\ stdout' = Append(stdout, Row(count(disk[filename]).val))
    /\ file_num' = file_num + 1
    /\ UNCHANGED <<pc, config, stderr, exit_code>>
    /\ Untouched

\* if let Ok(info) = count(file) when count returned Err: no arm for it
WcrNoRow ==
    /\ WcrInLoop
    /\ disk[filename].exists
    /\ ~count(disk[filename]).ok
    /\ file_num' = file_num + 1
    /\ UNCHANGED <<pc, config, stdout, stderr, exit_code>>
    /\ Untouched

\* the loop is over: run returns Ok(()) and main ends
WcrDone ==
    /\ pc = "wcr::run"
    /\ file_num > Len(config.files)
    /\ exit_code' = 0
    /\ pc' = "exit"
    /\ UNCHANGED <<config, file_num, stdout, stderr>>
    /\ Untouched

NextWcr ==
    \/ WcrGetArgs
    \/ WcrOpenErr
    \/ WcrRow
    \/ WcrNoRow
    \/ WcrDone

SpecWcr == InitWcr /\ [][NextWcr]_vars

\* the rows and the messages written for file i
RowsFor(i) == SelectSeq(stdout, LAMBDA e : e.file = i)
MessagesFor(i) == SelectSeq(stderr, LAMBDA e : e.file = i)

\* C30 as stated: every file of the command line has one outcome, a row on
\* stdout or a message on stderr, a file whose counting failed included.
C30_OneOutcomePerFile ==
    (tool = "wcr" /\ pc = "exit") =>
        \A i \in 1..Len(config.files) :
            Len(RowsFor(i)) + Len(MessagesFor(i)) = 1

-----------------------------------------------------------------------------
(* catr: run.                                                              *)

\* the flags of catr: none, -n, -b
CatrFlags ==
    { [number |-> FALSE, number_nonblank |-> FALSE],
      [number |-> TRUE, number_nonblank |-> FALSE],
      [number |-> FALSE, number_nonblank |-> TRUE] }

CatrArgvs == { [flags |-> fl, files |-> fs] : fl \in CatrFlags, fs \in ArgLists }

InitCatr ==
    /\ argv \in CatrArgvs
    /\ Start("catr", "catr::get_args")

CatrGetArgs ==
    /\ pc = "catr::get_args"
    /\ config' = [built |-> TRUE,
                  files |-> argv.files,
                  number_lines |-> argv.flags.number,
                  number_nonblank_lines |-> argv.flags.number_nonblank]
    /\ pc' = "catr::run"
    /\ UNCHANGED <<file_num, stdout, stderr, exit_code>>
    /\ Untouched

\* an item of file.lines(): the line read without its "\n" or "\r\n"
StripLine(buf) ==
    LET n == Len(buf)
        m == IF n > 0 /\ buf[n] = Newline THEN n - 1 ELSE n
        k == IF m < n /\ m > 0 /\ buf[m] = 13 THEN m - 1 ELSE m
    IN  SubSeq(buf, 1, k)

\* what println! writes for a line, by the two flags
CatrLine(line, line_num, last_num) ==
    [file |-> file_num, kind |-> "line",
     text |-> IF config.number_lines THEN <<"{:>6}", line_num + 1, "\t", line>>
              ELSE IF config.number_nonblank_lines
              THEN IF line # <<>> THEN <<"{:>6}", last_num + 1, "\t", line>> ELSE <<>>
              ELSE <<line>>]

\* the loop over file.lines().enumerate(): the lines written, and the error
\* of line_result? when a line cannot be read
RECURSIVE CatrLoop(_, _, _, _, _)
CatrLoop(f, pos, line_num, last_num, out) ==
    LET r == read_line(f, pos)
    IN  IF ~r.ok THEN [ok |-> FALSE, msg |-> r.msg, out |-> out]
        ELSE IF Len(r.val) = 0 THEN [ok |-> TRUE, out |-> out]
        ELSE LET line == StripLine(r.val)
                 numbered == config.number_nonblank_lines /\ ~config.number_lines /\ line # <<>>
             IN  CatrLoop(f, pos + Len(r.val), line_num + 1,
                          IF numbered THEN last_num + 1 ELSE last_num,
                          Append(out, CatrLine(line, line_num, last_num)))

CatrInLoop == pc = "catr::run" /\ file_num <= Len(config.files)

\* mutant: the Err of open is returned from run as a line error is
CatrOpenErr_fatal ==
    /\ CatrInLoop
    /\ ~disk[filename].exists
    /\ Fail([error |-> filename, detail |-> NotFound, prefix |-> "Failed to open "])
    /\ UNCHANGED <<config, file_num, stdout>>
    /\ Untouched

\* open(&filename) fails: eprintln!("Failed to open {}: {}"), the next file
CatrOpenErr ==
    /\ CatrInLoop
    /\ ~disk[filename].exists
    /\ stderr' = Append(stderr, [error |-> filename, detail |-> NotFound,
                                 prefix |-> "Failed to open "])
    /\ file_num' = file_num + 1
    /\ UNCHANGED <<pc, config, stdout, exit_code>>
    /\ Untouched

\* every line of the file is read and written
CatrLines ==
    /\ CatrInLoop
    /\ disk[filename].exists
    /\ LET r == CatrLoop(disk[filename], 0, 0, 0, <<>>)
       IN  /\ r.ok
           /\ stdout' = stdout \o r.out
    /\ file_num' = file_num + 1
    /\ UNCHANGED <<pc, config, stderr, exit_code>>
    /\ Untouched

\* line_result? fails: the lines before it are written, run returns the error
CatrLineErr ==
    /\ CatrInLoop
    /\ disk[filename].exists
    /\ LET r == CatrLoop(disk[filename], 0, 0, 0, <<>>)
       IN  /\ ~r.ok
           /\ stdout' = stdout \o r.out
           /\ Fail(IoError(r.msg))
    /\ UNCHANGED <<config, file_num>>
    /\ Untouched

CatrDone ==
    /\ pc = "catr::run"
    /\ file_num > Len(config.files)
    /\ exit_code' = 0
    /\ pc' = "exit"
    /\ UNCHANGED <<config, file_num, stdout, stderr>>
    /\ Untouched

NextCatr ==
    \/ CatrGetArgs
    \/ CatrOpenErr
    \/ CatrLines
    \/ CatrLineErr
    \/ CatrDone

-----------------------------------------------------------------------------
(* The three tools that take several files: tailr, catr, wcr.              *)

InitTools == Init \/ InitCatr \/ InitWcr

NextTools ==
    \/ GetArgs
    \/ OpenErr
    \/ OpenOk
    \/ CountPass
    \/ CountErr
    \/ PrintBytes
    \/ PrintLines
    \/ StreamErr
    \/ RunOk
    \/ CatrGetArgs
    \/ CatrOpenErr
    \/ CatrLines
    \/ CatrLineErr
    \/ CatrDone
    \/ WcrGetArgs
    \/ WcrOpenErr
    \/ WcrRow
    \/ WcrNoRow
    \/ WcrDone

SpecTools == InitTools /\ [][NextTools]_vars

\* the message of a failed open: the file name, then the error of the system
OpenFailure(e) ==
    /\ e.error \in {config.files[i] : i \in 1..Len(config.files)}
    /\ e.detail \in {NotFound, "No such file or directory"}

\* file i of the command line has been passed by the loop of run
Passed(i) == i < file_num \/ (pc = "exit" /\ exit_code = 0)

\* C22: in catr, wcr and tailr a file that cannot be opened gets a message on
\* stderr holding its name and the error of the system, nothing of it is
\* written to stdout, the files after it are still visited, and a run whose
\* only failures are failed opens ends with exit code 0.
C22_OpenFailureSkipsFile ==
    config.built =>
        /\ \A i \in 1..Len(config.files) :
              (Passed(i) /\ ~disk[config.files[i]].exists) =>
                  /\ \E k \in 1..Len(stderr) :
                        /\ OpenFailure(stderr[k])
                        /\ stderr[k].error = config.files[i]
                  /\ SelectSeq(stdout, LAMBDA e : e.file = i) = <<>>
        /\ (pc = "exit" /\ \A k \in 1..Len(stderr) : OpenFailure(stderr[k])) =>
              /\ exit_code = 0
              /\ file_num = Len(config.files) + 1

\* C22 witness: a run of each tool's kind, here wcr or catr, that met a file
\* it could not open before a file it could, and ended with exit code 0
C22_Witness ==
    /\ tool \in {"catr", "wcr"}
    /\ pc = "exit" /\ exit_code = 0
    /\ config.built
    /\ config.files = <<"nofile", "f1">>
    /\ Len(stderr) = 1 /\ OpenFailure(stderr[1])
    /\ SelectSeq(stdout, LAMBDA e : e.file = 2) # <<>>

-----------------------------------------------------------------------------
(* uniqr: run, writing to stdout.                                          *)

UniqrArgvs ==
    { [in_file |-> n, count |-> c] : n \in {"f1", "f2", "nofile", "dir"}, c \in BOOLEAN }

InitUniqr ==
    /\ argv \in UniqrArgvs
    /\ Start("uniqr", "uniqr::get_args")

UniqrGetArgs ==
    /\ pc = "uniqr::get_args"
    /\ config' = [built |-> TRUE, in_file |-> argv.in_file, count |-> argv.count]
    /\ pc' = "uniqr::run"
    /\ UNCHANGED <<file_num, stdout, stderr, exit_code>>
    /\ Untouched

\* str::trim_end: the text without the white space at its end
RECURSIVE trim_end(_)
trim_end(text) ==
    IF text # <<>> /\ text[Len(text)] \in WhiteSpace
    THEN trim_end(SubSeq(text, 1, Len(text) - 1))
    ELSE text

\* the closure print: nothing for a count of 0, else the text, behind its
\* count with -c
print(cnt, text, out) ==
    IF cnt > 0
    THEN Append(out, [file |-> 1, kind |-> "line",
                      text |-> IF config.count THEN <<"{:>4}", cnt, " ", text>> ELSE <<text>>])
    ELSE out

\* the loop of run and the print after it: previous and count carried from
\* line to line, the writes collected in out
RECURSIVE UniqrLoop(_, _, _, _, _)
UniqrLoop(f, pos, previous, cnt, out) ==
    LET r == read_line(f, pos)
    IN  IF ~r.ok THEN [ok |-> FALSE, msg |-> r.msg, out |-> out]
        ELSE IF Len(r.val) = 0 THEN [ok |-> TRUE, out |-> print(cnt, previous, out)]
        ELSE IF trim_end(r.val) # trim_end(previous)
        THEN UniqrLoop(f, pos + Len(r.val), r.val, 1, print(cnt, previous, out))
        ELSE UniqrLoop(f, pos + Len(r.val), previous, cnt + 1, out)

\* open(&config.in_file) fails: the error behind the name, out of run
UniqrOpenErr ==
    /\ pc = "uniqr::run"
    /\ ~disk[config.in_file].exists
    /\ Fail([error |-> config.in_file, detail |-> NotFound])
    /\ UNCHANGED <<config, file_num, stdout>>
    /\ Untouched

\* every line is read: run returns Ok(())
UniqrLines ==
    /\ pc = "uniqr::run"
    /\ disk[config.in_file].exists
    /\ LET r == UniqrLoop(disk[config.in_file], 0, <<>>, 0, <<>>)
       IN  /\ r.ok
           /\ stdout' = r.out
    /\ exit_code' = 0
    /\ pc' = "exit"
    /\ UNCHANGED <<config, file_num, stderr>>
    /\ Untouched

\* read_line(&mut line)? fails: what was written stays, run returns the error
UniqrReadErr ==
    /\ pc = "uniqr::run"
    /\ disk[config.in_file].exists
    /\ LET r == UniqrLoop(disk[config.in_file], 0, <<>>, 0, <<>>)
       IN  /\ ~r.ok
           /\ stdout' = r.out
           /\ Fail(IoError(r.msg))
    /\ UNCHANGED <<config, file_num>>
    /\ Untouched

NextUniqr ==
    \/ UniqrGetArgs
    \/ UniqrOpenErr
    \/ UniqrLines
    \/ UniqrReadErr

SpecUniqr == InitUniqr /\ [][NextUniqr]_vars

\* the bytes written to stdout, in order
RECURSIVE Written(_)
Written(out) ==
    IF out = <<>> THEN <<>>
    ELSE out[1].text[Len(out[1].text)] \o Written(Tail(out))

\* the first line of every maximal run of adjacent lines equal after trimming
RECURSIVE FirstOfRuns(_, _)
FirstOfRuns(ls, i) ==
    IF i > Len(ls) THEN <<>>
    ELSE (IF i = 1 \/ trim_end(ls[i]) # trim_end(ls[i - 1]) THEN ls[i] ELSE <<>>)
             \o FirstOfRuns(ls, i + 1)

\* C23 as stated: without -c, the output of uniqr on a text is the first line
\* of each maximal run of adjacent lines equal after trimming trailing white
\* space, in input order, and nothing else.
C23_FirstLineOfEachRun ==
    (tool = "uniqr" /\ pc = "exit" /\ exit_code = 0 /\ ~config.count) =>
        Written(stdout) = FirstOfRuns(LinesOf(disk[config.in_file].data), 1)

-----------------------------------------------------------------------------
(* grepr: find_lines.                                                      *)

MaxTextLen == 4

\* the bytes of the texts searched: "\n", "\r", "O", "o", and 0xC3, which on
\* its own is not valid UTF-8
TextBytes == {Newline, 13, 79, 111, 195}

Texts == SeqsUpTo(TextBytes, MaxTextLen)

\* the patterns: a literal, the empty one included, with or without
\* RegexBuilder::case_insensitive(true)
Patterns ==
    { [given |-> TRUE, text |-> t, case_insensitive |-> ci] :
          t \in {<<>>, <<111>>, <<79>>, <<111, 79>>}, ci \in BOOLEAN }

\* simple case folding of a byte
Fold(b) == IF b \in 65..90 THEN b + 32 ELSE b

\* pattern.is_match(&line): the literal occurs somewhere in the line
is_match(pat, line) ==
    LET same(a, b) == IF pat.case_insensitive THEN Fold(a) = Fold(b) ELSE a = b
        n == Len(pat.text)
    IN  \E at \in 0..(Len(line) - n) :
            \A j \in 1..n : same(line[at + j], pat.text[j])

\* mutant: the test is an inclusive or
RECURSIVE FindLoop_or(_, _, _, _, _)
FindLoop_or(f, pos, pat, invert_match, found) ==
    LET r == read_line(f, pos)
    IN  IF ~r.ok THEN r
        ELSE IF Len(r.val) = 0 THEN Ok(found)
        ELSE FindLoop_or(f, pos + Len(r.val), pat, invert_match,
                         IF is_match(pat, r.val) \/ invert_match
                         THEN Append(found, r.val) ELSE found)

\* the loop of find_lines: a line is pushed when is_match ^ invert_match
RECURSIVE FindLoop(_, _, _, _, _)
FindLoop(f, pos, pat, invert_match, found) ==
    LET r == read_line(f, pos)
    IN  IF ~r.ok THEN r
        ELSE IF Len(r.val) = 0 THEN Ok(found)
        ELSE FindLoop(f, pos + Len(r.val), pat, invert_match,
                      IF is_match(pat, r.val) # invert_match
                      THEN Append(found, r.val) ELSE found)

find_lines(text, pat, invert_match) == FindLoop(File(text), 0, pat, invert_match, <<>>)

\* matches holds the result of find_lines for either value of invert_match
InitFind ==
    /\ tool = "grepr"
    /\ file \in Texts
    /\ pattern \in Patterns
    /\ matches = [inv \in BOOLEAN |-> NoMatches]
    /\ token = <<>> /\ parsed = NoResult /\ calls = 0 /\ num_re = "unset"
    /\ ResolveIdle
    /\ RunIdle
    /\ PosIdle

FindLines ==
    \E invert_match \in BOOLEAN :
        /\ matches[invert_match] = NoMatches
        /\ matches' = [matches EXCEPT ![invert_match] =
                           [done |-> TRUE, result |-> find_lines(file, pattern, invert_match)]]
        /\ UNCHANGED <<file, pattern, tool, posVars, parseVars, num_re, resolveVars, runVars>>

NextFind == FindLines

SpecFind == InitFind /\ [][NextFind]_vars

\* how many times the line l is in the sequence ls
Occurrences(ls, l) == Cardinality({i \in 1..Len(ls) : ls[i] = l})

\* find_lines was called with this value of invert_match and returned Ok
Found(inv) == tool = "grepr" /\ matches[inv].done /\ matches[inv].result.ok

\* C27: find_lines returns, in input order and with their line endings, the
\* lines for which (the pattern matches) XOR invert_match; the results for
\* invert_match false and true share no line and together hold every line
\* of the input as often as the input does.
C27_XorPartition ==
    LET lines == LinesOf(file)
    IN  /\ \A inv \in BOOLEAN :
              Found(inv) =>
                  matches[inv].result.val =
                      SelectSeq(lines, LAMBDA l : is_match(pattern, l) # inv)
        /\ (Found(FALSE) /\ Found(TRUE)) =>
              LET plain == matches[FALSE].result.val
                  inverted == matches[TRUE].result.val
              IN  /\ \A i \in 1..Len(plain), j \in 1..Len(inverted) : plain[i] # inverted[j]
                  /\ \A k \in 1..Len(lines) :
                        Occurrences(plain, lines[k]) + Occurrences(inverted, lines[k])
                            = Occurrences(lines, lines[k])

\* C27 witness: "o\r\nO" searched for "o" both ways: the first line with its
\* "\r\n" matches, the second is the inverted result
C27_Witness ==
    /\ Found(FALSE) /\ Found(TRUE)
    /\ file = <<111, 13, Newline, 79>>
    /\ pattern = [given |-> TRUE, text |-> <<111>>, case_insensitive |-> FALSE]
    /\ matches[FALSE].result.val = << <<111, 13, Newline>> >>
    /\ matches[TRUE].result.val = << <<79>> >>

-----------------------------------------------------------------------------
(* cutr: parse_pos and parse_index.                                        *)

\* usize::MAX where usize has 64 bits
UsizeMax == Num(FALSE, <<1,8,4,4,6,7,4,4,0,7,3,7,0,9,5,5,1,6,1,5>>)

\* the digits of <usize as FromStr>::from_str, each step checked
RECURSIVE AccumulateUsize(_, _)
AccumulateUsize(acc, ds) ==
    IF ds = <<>> THEN Ok(acc)
    ELSE IF Head(ds) \notin AsciiDigits THEN Err("InvalidDigit")
    ELSE LET nxt == Num(FALSE, Append(acc.mag, DigitValue(Head(ds))))
         IN  IF NumLe(nxt, UsizeMax) THEN AccumulateUsize(nxt, Tail(ds))
             ELSE Err("PosOverflow")

\* input.parse::<NonZeroUsize>(): an optional "+", ASCII digits, no zero
ParseNonZeroUsize(s) ==
    LET n == AccumulateUsize(Zero, IF Head(s) = "+" THEN Tail(s) ELSE s)
    IN  IF s = <<>> THEN Err("Empty")
        ELSE IF s = <<"+">> \/ s = <<"-">> THEN Err("InvalidDigit")
        ELSE IF n.ok /\ n.val = Zero THEN Err("Zero")
        ELSE n

\* the closure value_error of parse_index
value_error(input) == <<"illegal first value: \"", input, "\"">>

\* mutant: the number is returned as it was written, not one less
parse_index_onebased(input) ==
    IF input # <<>> /\ Head(input) = "+" THEN Err(value_error(input))
    ELSE LET n == ParseNonZeroUsize(input)
         IN  IF n.ok THEN Ok(n.val) ELSE Err(value_error(input))

parse_index(input) ==
    IF input # <<>> /\ Head(input) = "+" THEN Err(value_error(input))
    ELSE LET n == ParseNonZeroUsize(input)
         IN  IF n.ok THEN Ok(NumSub(n.val, One)) ELSE Err(value_error(input))

\* range_re.captures(val) for ^(\d+)-(\d+)$
RangeCaptures(val) ==
    LET dashes == {i \in 1..Len(val) : val[i] = "-"}
        at == CHOOSE i \in dashes : TRUE
        digits(cs) == cs # <<>> /\ \A i \in 1..Len(cs) : cs[i] \in ReDigits
    IN  IF /\ Cardinality(dashes) = 1
           /\ digits(SubSeq(val, 1, at - 1))
           /\ digits(SubSeq(val, at + 1, Len(val)))
        THEN [matched |-> TRUE, g1 |-> SubSeq(val, 1, at - 1), g2 |-> SubSeq(val, at + 1, Len(val))]
        ELSE NoCaps

\* the range n..m
Range(n, m) == [start |-> n, end |-> m]

\* the closure mapped over the elements of the list
Position(val) ==
    LET idx == parse_index(val)
        captures == RangeCaptures(val)
        n1 == parse_index(captures.g1)
        n2 == parse_index(captures.g2)
    IN  IF idx.ok THEN Ok(Range(idx.val, NumAdd(idx.val, One)))
        ELSE IF ~captures.matched THEN idx
        ELSE IF ~n1.ok THEN n1
        ELSE IF ~n2.ok THEN n2
        ELSE IF NumLe(n2.val, n1.val)
        THEN Err(<<"First number in range (", NumAdd(n1.val, One),
                   ") must be lower than second number (", NumAdd(n2.val, One), ")">>)
        ELSE Ok(Range(n1.val, NumAdd(n2.val, One)))

\* range.split(',')
RECURSIVE Split(_, _)
Split(cs, cur) ==
    IF cs = <<>> THEN <<cur>>
    ELSE IF Head(cs) = "," THEN <<cur>> \o Split(Tail(cs), <<>>)
    ELSE Split(Tail(cs), Append(cur, Head(cs)))

\* .collect::<Result<_, _>>(): the ranges, or the first error
RECURSIVE Collect(_, _)
Collect(vals, acc) ==
    IF vals = <<>> THEN Ok(acc)
    ELSE LET r == Position(Head(vals))
         IN  IF r.ok THEN Collect(Tail(vals), Append(acc, r.val)) ELSE r

parse_pos(rng) == Collect(Split(rng, <<>>), <<>>)

MaxRangeLen == 5

RangeChars == {"0", "1", "2", "+", "-", ",", "a"}

\* lists around usize::MAX, and one with a digit that is not ASCII
EdgeLists ==
    LET max == MagChars(UsizeMax.mag)
        over == MagChars(NumAdd(UsizeMax, One).mag)
    IN  { max, over, <<"0">> \o max, <<"1", "-">> \o max, <<"1", "-">> \o over,
          max \o <<"-">> \o max, over \o <<"-", "1">>, <<"1", ",">> \o over,
          <<ArabicThree>>, <<ArabicThree, "-", "1">>, <<"1", "-", ArabicThree>> }

Ranges == SeqsUpTo(RangeChars, MaxRangeLen) \cup EdgeLists

InitPos ==
    /\ tool = "cutr"
    /\ range \in Ranges
    /\ positions = NoPositions
    /\ token = <<>> /\ parsed = NoResult /\ calls = 0 /\ num_re = "unset"
    /\ ResolveIdle
    /\ RunIdle
    /\ FindIdle

ParsePos ==
    /\ positions = NoPositions
    /\ positions' = parse_pos(range)
    /\ UNCHANGED <<range, tool, findVars, parseVars, num_re, resolveVars, runVars>>

NextPos == ParsePos

SpecPos == InitPos /\ [][NextPos]_vars

-----------------------------------------------------------------------------
(* Properties of parse_pos.                                                *)

\* a run of decimal digits, and the number it writes
IsDigits(cs) == cs # <<>> /\ \A i \in 1..Len(cs) : cs[i] \in AsciiDigits
ValueOf(cs) == Num(FALSE, [i \in 1..Len(cs) |-> DigitValue(cs[i])])

\* an element of the form digits-digits, and its two sides
IsPair(e) ==
    \E i \in 1..Len(e) :
        e[i] = "-" /\ IsDigits(SubSeq(e, 1, i - 1)) /\ IsDigits(SubSeq(e, i + 1, Len(e)))
DashOf(e) == CHOOSE i \in 1..Len(e) : e[i] = "-"
FirstOf(e) == SubSeq(e, 1, DashOf(e) - 1)
SecondOf(e) == SubSeq(e, DashOf(e) + 1, Len(e))

\* a positive integer a, or a range a-b with 1 <= a < b
GoodElement(e) ==
    \/ IsDigits(e) /\ Positive(ValueOf(e))
    \/ /\ IsPair(e)
       /\ Positive(ValueOf(FirstOf(e)))
       /\ NumLt(ValueOf(FirstOf(e)), ValueOf(SecondOf(e)))

\* the largest number of the element
Largest(e) == IF IsPair(e) THEN ValueOf(SecondOf(e)) ELSE ValueOf(e)

\* a-1..a for a, a-1..b for a-b
RangeOf(e) ==
    IF IsPair(e)
    THEN Range(NumSub(ValueOf(FirstOf(e)), One), ValueOf(SecondOf(e)))
    ELSE Range(NumSub(ValueOf(e), One), ValueOf(e))

Elements == Split(range, <<>>)
ParsedPos == tool = "cutr" /\ positions # NoPositions

\* C28 as stated: a list whose elements are each a positive integer or a
\* range a-b with 1 <= a < b is returned as the ranges a-1..a and a-1..b, in
\* list order.
C28_ValidListsBecomeRanges ==
    (ParsedPos /\ \A k \in 1..Len(Elements) : GoodElement(Elements[k])) =>
        positions = Ok([k \in 1..Len(Elements) |-> RangeOf(Elements[k])])

\* C28: a list whose elements are each a positive integer or a range a-b
\* with 1 <= a < b, no number above usize::MAX, is returned as the ranges
\* a-1..a and a-1..b, in list order, not sorted and not merged.
C28_ValidListsInUsize ==
    (/\ ParsedPos
     /\ \A k \in 1..Len(Elements) :
           GoodElement(Elements[k]) /\ NumLe(Largest(Elements[k]), UsizeMax)) =>
        positions = Ok([k \in 1..Len(Elements) |-> RangeOf(Elements[k])])

\* C28 witness: "2,1-2" is parsed to 1..2, 0..2, the order of the list kept
C28_Witness ==
    /\ ParsedPos
    /\ range = <<"2", ",", "1", "-", "2">>
    /\ positions = Ok(<<Range(FromInt(1), FromInt(2)), Range(FromInt(0), FromInt(2))>>)

\* an element of the form digits-digits, the digits being what \d matches
HasRangeForm(e) ==
    \E i \in 1..Len(e) :
        /\ e[i] = "-"
        /\ i > 1 /\ i < Len(e)
        /\ \A j \in (1..Len(e)) \ {i} : e[j] \in ReDigits

\* an endpoint that is not a positive integer
BadEndpoint(cs) == ~IsDigits(cs) \/ ValueOf(cs) = Zero

\* the numbers written in an element
NumbersOf(e) ==
    IF HasRangeForm(e) THEN {cs \in {FirstOf(e), SecondOf(e)} : IsDigits(cs)}
    ELSE IF IsDigits(e) THEN {e}
    ELSE {}

InUsize(e) == \A cs \in NumbersOf(e) : NumLe(ValueOf(cs), UsizeMax)

\* the first element of the list that is not a positive integer or a range
\* a-b with 1 <= a < b
HasBad == \E k \in 1..Len(Elements) : ~GoodElement(Elements[k])
FirstBad == CHOOSE k \in 1..Len(Elements) :
                /\ ~GoodElement(Elements[k])
                /\ \A j \in 1..(k - 1) : GoodElement(Elements[j])

\* the message for the element e, the illegal value announced by prefix
MessageFor(e, prefix) ==
    IF HasRangeForm(e)
    THEN IF BadEndpoint(FirstOf(e)) THEN <<prefix, FirstOf(e), "\"">>
         ELSE IF BadEndpoint(SecondOf(e)) THEN <<prefix, SecondOf(e), "\"">>
         ELSE <<"First number in range (", ValueOf(FirstOf(e)),
                ") must be lower than second number (", ValueOf(SecondOf(e)), ")">>
    ELSE <<prefix, e, "\"">>

\* parse_pos returns the error of the first bad element, announced by prefix
ErrorOfFirstBad(prefix) ==
    (/\ ParsedPos
     /\ HasBad
     /\ \A k \in 1..Len(Elements) : k <= FirstBad => InUsize(Elements[k])) =>
        positions = Err(MessageFor(Elements[FirstBad], prefix))

\* C29 as stated: a list with an element that is empty, zero, prefixed with
\* +, not a number, a malformed range or a range a-b with a >= b is an error;
\* the message is `illegal list value: "X"`, X the offending endpoint of an
\* element digits-digits and the whole element otherwise, and for a >= b
\* `First number in range (a) must be lower than second number (b)`.
C29_IllegalListValue == ErrorOfFirstBad("illegal list value: \"")

====
